---- MODULE Spec2Model ----
(***************************************************************************)
(* Model of the Logger singleton (src/logger.hpp) and of its callers.      *)
(*                                                                         *)
(* Every public method of Logger takes mutex_ for its whole body.  A log   *)
(* call is modelled as the steps it takes while it holds the mutex:        *)
(*   LogCall   the caller reaches the lock_guard (line 99) and waits,      *)
(*   LogEnter  the mutex is acquired and the level filter is applied,      *)
(*   LogRotate rotateLogs(maxLogSize_),                                    *)
(*   LogWrite  the line is rendered and appended to the file (or the open  *)
(*             failure is reported on cerr),                               *)
(*   LogEcho   the console echo, the return and the release of the mutex.  *)
(* The setters are one step each: lock, assign, unlock.                    *)
(*                                                                         *)
(* The file system is a function from the names of the files that exist    *)
(* to their content, a sequence of lines; a line is the sequence of the    *)
(* strings inserted into the ostringstream, in insertion order.            *)
(*                                                                         *)
(* Spec is the Logger under any callers.  SpecMain is the process of       *)
(* src/main.cpp: main configures the logger, opens the crash log, installs *)
(* the signal handlers and lets the threads log; a signal may arrive at    *)
(* any time and runs signalHandler, which writes to the crash log with     *)
(* write(2) and ends the process with _exit.                               *)
(***************************************************************************)
EXTENDS Integers, Sequences, FiniteSets, TLC

\* ------------------------------------------------------------- bounds
\* Total number of log calls made by all threads.
MaxCalls == 3
\* Total number of setter calls.
MaxCfgChanges == 2
\* Number of file operations the environment makes fail.
MaxFaults == 2

\* ------------------------------------------------------------- inputs
Threads == {"t1", "t2"}
NoThread == "none"

\* enum class LogLevel { INFO, WARNING, ERROR, DEBUG }
LogLevels == {"INFO", "WARNING", "ERROR", "DEBUG"}

\* The value of each enumerator: its position in the enum's declaration.
LevelValue(level) ==
    CASE level = "INFO"    -> 0
      [] level = "WARNING" -> 1
      [] level = "ERROR"   -> 2
      [] level = "DEBUG"   -> 3

\* A null const char* (the default of log's file and function parameters).
nullptr == "<nullptr>"

\* The (file, function) pair each caller passes: t1 logs through the SIELOG
\* macro (__FILE__, __func__), t2 calls log directly with the defaults.
CallerLoc(t) == IF t = "t1" THEN <<"main.cpp", "main">> ELSE <<nullptr, nullptr>>

\* The levels each caller logs at.
CallerLevels(t) == IF t = "t1" THEN {"INFO", "DEBUG"} ELSE {"WARNING", "ERROR"}

\* The paths given to setLogFile and the sizes given to setMaxLogSize.  A
\* non-verbose INFO line takes exactly 32 bytes, every other line more.
LogFileChoices == {"a.log"}
MaxSizeChoices == {32}

\* The message of thread t's k-th log call: distinct for distinct calls.
Msg(t, k) == t \o "." \o ToString(k)

\* strftime's "%Y-%m-%d %H:%M:%S" rendering of the current time: 19 characters.
Timestamp == "2024-11-22 10:15:00"

\* maxLogSize_'s default member initializer.
DefaultMaxLogSize == 5 * 1024 * 1024

\* crashLogFd's initial value, and open's result when it fails.
NoFd == -1

\* The descriptor open returns for crash.log.
CrashFd == 3

\* The signals setupSignalHandlers installs signalHandler for.
HandledSignals == {"SIGSEGV", "SIGABRT", "SIGFPE", "SIGILL", "SIGINT", "SIGTERM"}

\* The signals the process may receive: the handled ones and one that is not.
Signals == HandledSignals \cup {"SIGHUP"}

\* The order of setupSignalHandlers's calls of signal.
InstallOrder == <<"SIGSEGV", "SIGABRT", "SIGFPE", "SIGILL", "SIGINT", "SIGTERM">>

\* The path main gives to setLogFile.
MainLogFile == "logTest.log"

\* The levels of threadFunction's SIELOG calls, in order.
ThreadLevels == <<"INFO", "DEBUG", "WARNING", "ERROR", "INFO">>

\* ------------------------------------------------------------- state
VARIABLES
    logFile_,       \* Logger::logFile_
    minLogLevel_,   \* Logger::minLogLevel_
    logToConsole_,  \* Logger::logToConsole_
    maxLogSize_,    \* Logger::maxLogSize_
    verbose_,       \* Logger::verbose_
    mutex_,         \* Logger::mutex_: the thread that holds it, or NoThread
    files,          \* the file system: name of an existing file -> its lines
    cout,           \* the lines written to std::cout
    cerr,           \* the lines written to std::cerr
    pc,             \* each thread's position in Logger::log
    call,           \* each thread's arguments of the log call in progress
    logMessage,     \* each thread's local logMessage (the rendered line)
    seq,            \* history: the number of log calls each thread has made
    accepted,       \* history: the messages of each thread that passed the filter
    rotated,        \* history: what rotateLogs did in the call in progress
    opened,         \* history: how the open for append went in the call in progress
    cfgChanges,     \* history: the number of setter calls
    faults,         \* history: the number of failures the environment injected
    rotatedOut,     \* history: the contents renamed to a backup, oldest first
    crashLogFd,     \* main.cpp's global crashLogFd
    cleanedUp,      \* whether cleanupCrashLog has run
    crashLog,       \* the lines of the file crash.log
    handlers,       \* the signals signalHandler is installed for
    started,        \* the threads that have made threadFunction's setVerbosity call
    mainPc,         \* main's position
    sigPc,          \* signalHandler's position, or how the process was ended
    sig             \* the signal being handled

config == <<logFile_, minLogLevel_, logToConsole_, maxLogSize_, verbose_>>
output == <<files, cout, cerr>>
locals == <<pc, call, logMessage>>
history == <<seq, accepted, rotated, opened, cfgChanges, faults, rotatedOut>>
process == <<crashLogFd, cleanedUp, crashLog, handlers, started, mainPc, sigPc, sig>>
vars == <<config, mutex_, output, locals, history, process>>

NoCall == [level |-> "INFO", message |-> "", file |-> nullptr, function |-> nullptr]

\* ------------------------------------------------------------- helpers
RECURSIVE SumLen(_)
\* The number of characters of a sequence of strings.
SumLen(strs) == IF strs = <<>> THEN 0 ELSE Len(Head(strs)) + SumLen(Tail(strs))

\* The bytes a line takes in the file: its text and the newline of std::endl.
LineSize(line) == SumLen(line) + 1

RECURSIVE FileSize(_)
\* tellg() of a stream opened at the end: the bytes of all the lines.
FileSize(lines) == IF lines = <<>> THEN 0 ELSE LineSize(Head(lines)) + FileSize(Tail(lines))

\* std::filesystem::exists
Exists(fs, name) == name \in DOMAIN fs

\* logFile_ + "." + std::to_string(index)
BackupName(path, index) == path \o "." \o ToString(index)

\* The switch that adds the log level to the line.
LevelTag(level) ==
    CASE level = "INFO"    -> " [INFO] "
      [] level = "WARNING" -> " [WARNING] "
      [] level = "ERROR"   -> " [ERROR] "
      [] level = "DEBUG"   -> " [DEBUG] "

\* The file and function part of the line, added when verbosity is enabled.
Location(verbose, file, function) ==
    IF verbose /\ file # nullptr
    THEN <<"[", file>> \o (IF function # nullptr THEN <<"::", function>> ELSE <<>>) \o <<"] ">>
    ELSE <<>>

\* The line log builds in logMessage.
Render(c, verbose) ==
    <<Timestamp, LevelTag(c.level)>> \o Location(verbose, c.file, c.function) \o <<c.message>>

\* Mutant of BelowMinLevel: the comparison turned round.
BelowMinLevelReversed(level, minLevel) == LevelValue(level) > LevelValue(minLevel)

\* The level filter of log: the event is dropped.
BelowMinLevel(level, minLevel) == LevelValue(level) < LevelValue(minLevel)

\* Mutant of ShouldRotate: a file of exactly maxSize bytes is rotated too.
ShouldRotateAtMax(fs, path, maxSize) ==
    /\ Exists(fs, path)
    /\ FileSize(fs[path]) >= maxSize

\* Mutant of ShouldRotate: the stream is not opened at its end (no ios::ate),
\* so tellg() is 0 and never larger than maxSize.
ShouldRotateNoAte(fs, path, maxSize) ==
    /\ Exists(fs, path)
    /\ 0 > maxSize

\* rotateLogs's condition: the file opens for reading and is larger than maxSize.
ShouldRotate(fs, path, maxSize) ==
    /\ Exists(fs, path)
    /\ FileSize(fs[path]) > maxSize

RECURSIVE NextBackupIndex(_, _, _)
\* rotateLogs's do-while loop: the first index from `index` whose backup does not exist.
NextBackupIndex(fs, path, index) ==
    IF Exists(fs, BackupName(path, index))
    THEN NextBackupIndex(fs, path, index + 1)
    ELSE index

\* Mutant of BackupTarget: the index search is skipped, the backup is always path.1.
BackupTargetFirst(fs, path) == BackupName(path, 1)

\* The backup file rotateLogs renames the log file to.
BackupTarget(fs, path) == BackupName(path, NextBackupIndex(fs, path, 1))

\* Mutant of Rename: the file is copied to dst and src is left in place.
RenameKeepsSource(fs, src, dst) ==
    [n \in DOMAIN fs \cup {dst} |-> IF n = dst THEN fs[src] ELSE fs[n]]

\* std::rename(src, dst), succeeding: dst takes src's content, src is gone.
Rename(fs, src, dst) ==
    [n \in (DOMAIN fs \ {src}) \cup {dst} |-> IF n = dst THEN fs[src] ELSE fs[n]]

\* Mutant of AppendLine: the stream is opened without ios_base::app and truncates.
AppendLineTruncating(fs, path, line) ==
    [n \in DOMAIN fs \cup {path} |-> IF n = path THEN <<line>> ELSE fs[n]]

\* logStream << line << std::endl on a stream opened with ios_base::app:
\* the file is created when it does not exist, the line goes to its end.
AppendLine(fs, path, line) ==
    [n \in DOMAIN fs \cup {path} |->
        IF n = path
        THEN (IF Exists(fs, path) THEN Append(fs[path], line) ELSE <<line>>)
        ELSE fs[n]]

\* The diagnostic of a failed open.
OpenError(path) == "Error opening log file: " \o path

\* Mutant of ReportOpenFailure: the failed open goes unreported.
ReportOpenFailureSilent(err, path) == err

\* The else branch of the open: one line on std::cerr, nothing else.
ReportOpenFailure(err, path) == Append(err, OpenError(path))

\* The console echo: the line goes to std::cout when logToConsole_ is set.
ConsoleEcho(out, enable, line) == IF enable THEN Append(out, line) ELSE out

\* Mutant of MutexFree: the lock_guard is missing, nobody waits.
MutexFreeAlways(m) == TRUE

\* std::lock_guard<std::mutex> lock(mutex_) returns: the mutex is not held.
MutexFree(m) == m = NoThread

\* Mutant of RenameFails: the log file is removed when it cannot be renamed.
RenameFailsRemovesSource(fs, src, dst) == [n \in DOMAIN fs \ {src} |-> fs[n]]

\* std::rename(src, dst), failing: no file is changed.
RenameFails(fs, src, dst) == fs

\* ------------------------------------------------------------- Init
Init ==
    /\ logFile_ = ""
    /\ minLogLevel_ = "INFO"
    /\ logToConsole_ = FALSE
    /\ maxLogSize_ = DefaultMaxLogSize
    /\ verbose_ = FALSE
    /\ mutex_ = NoThread
    /\ files = <<>>
    /\ cout = <<>>
    /\ cerr = <<>>
    /\ pc = [t \in Threads |-> "idle"]
    /\ call = [t \in Threads |-> NoCall]
    /\ logMessage = [t \in Threads |-> <<>>]
    /\ seq = [t \in Threads |-> 0]
    /\ accepted = [t \in Threads |-> <<>>]
    /\ rotated = [t \in Threads |-> "no"]
    /\ opened = [t \in Threads |-> "no"]
    /\ cfgChanges = 0
    /\ faults = 0
    /\ rotatedOut = <<>>
    /\ crashLogFd = NoFd
    /\ cleanedUp = FALSE
    /\ crashLog = <<>>
    /\ handlers = {}
    /\ started = {}
    /\ mainPc = "start"
    /\ sigPc = "none"
    /\ sig = "none"

\* ------------------------------------------------------------- setters
\* A setter runs when its caller is not inside log and the mutex is free.
CanSet(t) ==
    /\ pc[t] = "idle"
    /\ MutexFree(mutex_)
    /\ cfgChanges < MaxCfgChanges

SetLogFile(t, logFile) ==
    /\ CanSet(t)
    /\ logFile_' = logFile
    /\ cfgChanges' = cfgChanges + 1
    /\ UNCHANGED <<minLogLevel_, logToConsole_, maxLogSize_, verbose_, mutex_, output, locals,
                   seq, accepted, rotated, opened, faults, rotatedOut, process>>

SetLogLevel(t, level) ==
    /\ CanSet(t)
    /\ minLogLevel_' = level
    /\ cfgChanges' = cfgChanges + 1
    /\ UNCHANGED <<logFile_, logToConsole_, maxLogSize_, verbose_, mutex_, output, locals,
                   seq, accepted, rotated, opened, faults, rotatedOut, process>>

SetVerbosity(t, verbose) ==
    /\ CanSet(t)
    /\ verbose_' = verbose
    /\ cfgChanges' = cfgChanges + 1
    /\ UNCHANGED <<logFile_, minLogLevel_, logToConsole_, maxLogSize_, mutex_, output, locals,
                   seq, accepted, rotated, opened, faults, rotatedOut, process>>

LogToConsole(t, enable) ==
    /\ CanSet(t)
    /\ logToConsole_' = enable
    /\ cfgChanges' = cfgChanges + 1
    /\ UNCHANGED <<logFile_, minLogLevel_, maxLogSize_, verbose_, mutex_, output, locals,
                   seq, accepted, rotated, opened, faults, rotatedOut, process>>

SetMaxLogSize(t, maxSize) ==
    /\ CanSet(t)
    /\ maxLogSize_' = maxSize
    /\ cfgChanges' = cfgChanges + 1
    /\ UNCHANGED <<logFile_, minLogLevel_, logToConsole_, verbose_, mutex_, output, locals,
                   seq, accepted, rotated, opened, faults, rotatedOut, process>>

\* ------------------------------------------------------------- log
\* The number of log calls made so far.
RECURSIVE Total(_, _)
Total(f, S) == IF S = {} THEN 0 ELSE LET x == CHOOSE y \in S : TRUE IN f[x] + Total(f, S \ {x})

\* A thread calls log(level, message, file, function) and reaches the lock_guard.
LogCall(t, level, file, function) ==
    /\ pc[t] = "idle"
    /\ Total(seq, Threads) < MaxCalls
    /\ seq' = [seq EXCEPT ![t] = @ + 1]
    /\ call' = [call EXCEPT ![t] = [level |-> level, message |-> Msg(t, seq[t] + 1),
                                    file |-> file, function |-> function]]
    /\ pc' = [pc EXCEPT ![t] = "lock"]
    /\ UNCHANGED <<config, mutex_, output, logMessage, accepted, rotated, opened,
                   cfgChanges, faults, rotatedOut, process>>

\* The mutex is acquired and the level is checked against minLogLevel_: an
\* event below it returns at once (releasing the mutex), any other goes on.
LogEnter(t) ==
    /\ pc[t] = "lock"
    /\ MutexFree(mutex_)
    /\ IF BelowMinLevel(call[t].level, minLogLevel_)
       THEN /\ pc' = [pc EXCEPT ![t] = "idle"]
            /\ call' = [call EXCEPT ![t] = NoCall]
            /\ UNCHANGED <<mutex_, accepted>>
       ELSE /\ pc' = [pc EXCEPT ![t] = "rotate"]
            /\ mutex_' = t
            /\ accepted' = [accepted EXCEPT ![t] = Append(@, call[t].message)]
            /\ UNCHANGED call
    /\ UNCHANGED <<config, output, logMessage, seq, rotated, opened, cfgChanges, faults,
                   rotatedOut, process>>

\* rotateLogs(maxLogSize_): when the file is larger than the maximum it is
\* renamed to the first backup name that does not exist; the rename may fail,
\* and its result is not looked at.
LogRotate(t) ==
    /\ pc[t] = "rotate"
    /\ IF ShouldRotate(files, logFile_, maxLogSize_)
       THEN \E ok \in BOOLEAN :
              /\ ok \/ faults < MaxFaults
              /\ files' = IF ok THEN Rename(files, logFile_, BackupTarget(files, logFile_))
                                ELSE RenameFails(files, logFile_, BackupTarget(files, logFile_))
              /\ rotated' = [rotated EXCEPT ![t] = IF ok THEN "renamed" ELSE "failed"]
              /\ faults' = IF ok THEN faults ELSE faults + 1
              /\ rotatedOut' = IF ok THEN Append(rotatedOut, files[logFile_]) ELSE rotatedOut
       ELSE UNCHANGED <<files, rotated, faults, rotatedOut>>
    /\ pc' = [pc EXCEPT ![t] = "write"]
    /\ UNCHANGED <<config, mutex_, cout, cerr, call, logMessage, seq, accepted, opened,
                   cfgChanges, process>>

\* The line is built, the file is opened for append and the line written; a
\* failed open is reported on cerr.  An empty path never opens.
LogWrite(t) ==
    /\ pc[t] = "write"
    /\ \E ok \in BOOLEAN :
         /\ ok => logFile_ # ""
         /\ ~ok => (logFile_ = "" \/ faults < MaxFaults)
         /\ files' = IF ok THEN AppendLine(files, logFile_, Render(call[t], verbose_))
                           ELSE files
         /\ cerr' = IF ok THEN cerr ELSE ReportOpenFailure(cerr, logFile_)
         /\ opened' = [opened EXCEPT ![t] = IF ok THEN "ok" ELSE "failed"]
         /\ faults' = IF ~ok /\ logFile_ # "" THEN faults + 1 ELSE faults
    /\ logMessage' = [logMessage EXCEPT ![t] = Render(call[t], verbose_)]
    /\ pc' = [pc EXCEPT ![t] = "echo"]
    /\ UNCHANGED <<config, mutex_, cout, call, seq, accepted, rotated, cfgChanges,
                   rotatedOut, process>>

\* The console echo, when enabled; then log returns and the mutex is released.
LogEcho(t) ==
    /\ pc[t] = "echo"
    /\ cout' = ConsoleEcho(cout, logToConsole_, logMessage[t])
    /\ mutex_' = NoThread
    /\ pc' = [pc EXCEPT ![t] = "idle"]
    /\ call' = [call EXCEPT ![t] = NoCall]
    /\ logMessage' = [logMessage EXCEPT ![t] = <<>>]
    /\ rotated' = [rotated EXCEPT ![t] = "no"]
    /\ opened' = [opened EXCEPT ![t] = "no"]
    /\ UNCHANGED <<config, files, cerr, seq, accepted, cfgChanges, faults, rotatedOut,
                   process>>

\* ------------------------------------------------------------- Next
Next ==
    \E t \in Threads :
        \/ \E p \in LogFileChoices : SetLogFile(t, p)
        \/ \E l \in LogLevels : SetLogLevel(t, l)
        \/ \E b \in BOOLEAN : SetVerbosity(t, b)
        \/ \E b \in BOOLEAN : LogToConsole(t, b)
        \/ \E s \in MaxSizeChoices : SetMaxLogSize(t, s)
        \/ \E l \in CallerLevels(t) : LogCall(t, l, CallerLoc(t)[1], CallerLoc(t)[2])
        \/ LogEnter(t)
        \/ LogRotate(t)
        \/ LogWrite(t)
        \/ LogEcho(t)

Spec == Init /\ [][Next]_vars

\* ------------------------------------------------------------- main.cpp
\* No thread is inside log.
AllReturned == \A t \in Threads : pc[t] = "idle"

\* The process runs: main has not returned from exit and no signal has ended it.
Alive == mainPc # "exited" /\ sigPc \notin {"dead", "killed"}

\* The descriptor in crashLogFd is open.
FdOpen == crashLogFd # NoFd /\ ~cleanedUp

\* SignalSafeLogger::logToFile: message and a newline are written to fd unless
\* fd is -1; a write to a closed descriptor writes nothing.
LogToFile(fd, open, lines, message) ==
    IF fd # NoFd /\ open THEN Append(lines, message) ELSE lines

\* signalHandler's first line.
CrashHeader == "Application crashed with signal:"

\* Mutant of SignalText: the switch has no cases but the default.
SignalTextDefaultOnly(signal) == "Unknown signal received"

\* signalHandler's switch: the literal of the signal.
SignalText(signal) ==
    CASE signal = "SIGSEGV" -> "SIGSEGV (Segmentation Fault)"
      [] signal = "SIGABRT" -> "SIGABRT (Abort)"
      [] signal = "SIGFPE"  -> "SIGFPE (Floating Point Exception)"
      [] signal = "SIGILL"  -> "SIGILL (Illegal Instruction)"
      [] signal = "SIGINT"  -> "SIGINT (Interrupt)"
      [] signal = "SIGTERM" -> "SIGTERM (Termination)"
      [] OTHER              -> "Unknown signal received"

\* Mutant of HandlerMayRun: signalHandler locks the logger's mutex first.
HandlerMayRunWithMutex(m) == m = NoThread

\* signalHandler takes no lock: it runs whatever the state of mutex_.
HandlerMayRun(m) == TRUE

\* Mutant of HandlerExitCleanup: the handler ends with exit, which runs
\* the functions registered with atexit.
HandlerExitCleanupRuns(done) == TRUE

\* _exit(EXIT_FAILURE): the functions registered with atexit are not called.
HandlerExitCleanup(done) == done

\* Mutant of MainStepAfter: the handlers are installed before the crash log is opened.
MainStepAfterHandlersFirst(p) ==
    CASE p = "start"    -> "handlers"
      [] p = "handlers" -> "crashlog"
      [] p = "crashlog" -> "spawn"

\* The order of main's set-up: logger, crash log, signal handlers, threads.
MainStepAfter(p) ==
    CASE p = "start"    -> "crashlog"
      [] p = "crashlog" -> "handlers"
      [] p = "handlers" -> "spawn"

\* main's statements run while no signal handler has interrupted the process.
MainRuns(p) == mainPc = p /\ Alive /\ sigPc = "none"

\* logger.setLogFile("logTest.log"); logger.logToConsole(true);
MainConfigure ==
    /\ MainRuns("start")
    /\ logFile_' = MainLogFile
    /\ logToConsole_' = TRUE
    /\ mainPc' = MainStepAfter("start")
    /\ UNCHANGED <<minLogLevel_, maxLogSize_, verbose_, mutex_, output, locals, history,
                   crashLogFd, cleanedUp, crashLog, handlers, started, sigPc, sig>>

\* setupCrashLog(): open may fail, which is reported on stderr with write.
SetupCrashLog ==
    /\ MainRuns("crashlog")
    /\ \E ok \in BOOLEAN :
         /\ crashLogFd' = IF ok THEN CrashFd ELSE NoFd
         /\ cerr' = IF ok THEN cerr ELSE Append(cerr, "Failed to open crash log file.")
    /\ mainPc' = MainStepAfter("crashlog")
    /\ UNCHANGED <<config, mutex_, files, cout, locals, history,
                   cleanedUp, crashLog, handlers, started, sigPc, sig>>

\* setupSignalHandlers(): one call of signal after the other.
SetupSignalHandlers ==
    /\ MainRuns("handlers")
    /\ handlers' = handlers \cup {InstallOrder[Cardinality(handlers) + 1]}
    /\ mainPc' = IF handlers' = HandledSignals THEN MainStepAfter("handlers") ELSE mainPc
    /\ UNCHANGED <<config, mutex_, output, locals, history,
                   crashLogFd, cleanedUp, crashLog, started, sigPc, sig>>

\* "Starting threads..." goes to std::cout and the threads are created.
MainStartThreads ==
    /\ MainRuns("spawn")
    /\ cout' = Append(cout, <<"Starting threads...">>)
    /\ mainPc' = "run"
    /\ UNCHANGED <<config, mutex_, files, cerr, locals, history,
                   crashLogFd, cleanedUp, crashLog, handlers, started, sigPc, sig>>

\* A thread runs while the process does and main has not joined it.
ThreadRuns == mainPc = "run" /\ Alive

\* threadFunction's logger.setVerbosity(true).
ThreadSetVerbosity(t) ==
    /\ ThreadRuns
    /\ t \notin started
    /\ MutexFree(mutex_)
    /\ verbose_' = TRUE
    /\ started' = started \cup {t}
    /\ UNCHANGED <<logFile_, minLogLevel_, logToConsole_, maxLogSize_, mutex_, output, locals,
                   history, crashLogFd, cleanedUp, crashLog, handlers, mainPc, sigPc, sig>>

\* threadFunction's SIELOG calls, one step of log at a time.
ThreadLog(t) ==
    /\ ThreadRuns
    /\ t \in started
    /\ \/ /\ seq[t] < Len(ThreadLevels)
          /\ LogCall(t, ThreadLevels[seq[t] + 1], "main.cpp", "threadFunction")
       \/ LogEnter(t)
       \/ LogRotate(t)
       \/ LogWrite(t)
       \/ LogEcho(t)

\* A log call of main, made when the threads are joined.
MainLog(c) ==
    \E renamed, isOpen \in BOOLEAN :
        LET rotate == ShouldRotate(files, logFile_, maxLogSize_)
            target == BackupTarget(files, logFile_)
            kept == IF ~rotate THEN files
                    ELSE IF renamed THEN Rename(files, logFile_, target)
                    ELSE RenameFails(files, logFile_, target)
            failures == (IF rotate /\ ~renamed THEN 1 ELSE 0)
                        + (IF ~isOpen /\ logFile_ # "" THEN 1 ELSE 0)
        IN  /\ MutexFree(mutex_)
            /\ ~BelowMinLevel(c.level, minLogLevel_)
            /\ rotate \/ renamed
            /\ isOpen => logFile_ # ""
            /\ faults + failures <= MaxFaults
            /\ files' = IF isOpen THEN AppendLine(kept, logFile_, Render(c, verbose_)) ELSE kept
            /\ cerr' = IF isOpen THEN cerr ELSE ReportOpenFailure(cerr, logFile_)
            /\ cout' = ConsoleEcho(cout, logToConsole_, Render(c, verbose_))
            /\ faults' = faults + failures
            /\ rotatedOut' = IF rotate /\ renamed THEN Append(rotatedOut, files[logFile_])
                              ELSE rotatedOut

\* The threads are joined, then logger.setVerbosity(false).
MainJoin ==
    /\ MainRuns("run")
    /\ started = Threads
    /\ AllReturned
    /\ Total(seq, Threads) = MaxCalls
    /\ verbose_' = FALSE
    /\ mainPc' = "joined"
    /\ UNCHANGED <<logFile_, minLogLevel_, logToConsole_, maxLogSize_, mutex_, output, locals,
                   history, crashLogFd, cleanedUp, crashLog, handlers, started, sigPc, sig>>

\* SIELOG(INFO, ...) of main.
MainLogJoined ==
    /\ MainRuns("joined")
    /\ MainLog([level |-> "INFO", message |-> "This log will not include file or function info.",
                file |-> "main.cpp", function |-> "main"])
    /\ mainPc' = "report"
    /\ UNCHANGED <<config, mutex_, locals, seq, accepted, rotated, opened, cfgChanges,
                   crashLogFd, cleanedUp, crashLog, handlers, started, sigPc, sig>>

\* "All threads finished. ..." goes to std::cout.
MainReport ==
    /\ MainRuns("report")
    /\ cout' = Append(cout, <<"All threads finished. Check the log file: logTest.log">>)
    /\ mainPc' = "crash"
    /\ UNCHANGED <<config, mutex_, files, cerr, locals, history,
                   crashLogFd, cleanedUp, crashLog, handlers, started, sigPc, sig>>

\* crashApp() writes through a null pointer, which is undefined: the write
\* faults and SIGSEGV is delivered, or the build drops it and crashApp returns.
CrashApp ==
    /\ MainRuns("crash")
    /\ \/ /\ sigPc' = IF "SIGSEGV" \in handlers THEN "header" ELSE "killed"
          /\ sig' = "SIGSEGV"
          /\ UNCHANGED mainPc
       \/ /\ mainPc' = "tail"
          /\ UNCHANGED <<sigPc, sig>>
    /\ UNCHANGED <<config, mutex_, output, locals, history,
                   crashLogFd, cleanedUp, crashLog, handlers, started>>

\* logger.log(INFO, "This message will not be logged."), reached when crashApp returns.
MainLogTail ==
    /\ MainRuns("tail")
    /\ MainLog([level |-> "INFO", message |-> "This message will not be logged.",
                file |-> nullptr, function |-> nullptr])
    /\ mainPc' = "return"
    /\ UNCHANGED <<config, mutex_, locals, seq, accepted, rotated, opened, cfgChanges,
                   crashLogFd, cleanedUp, crashLog, handlers, started, sigPc, sig>>

\* return 0: exit runs cleanupCrashLog, registered with atexit, which closes
\* the descriptor unless it is -1 and leaves crashLogFd as it is.
CleanupCrashLog ==
    /\ MainRuns("return")
    /\ cleanedUp' = TRUE
    /\ mainPc' = "closed"
    /\ UNCHANGED <<config, mutex_, output, locals, history,
                   crashLogFd, crashLog, handlers, started, sigPc, sig>>

\* exit ends the process.
ProcessExit ==
    /\ MainRuns("closed")
    /\ mainPc' = "exited"
    /\ UNCHANGED <<config, mutex_, output, locals, history,
                   crashLogFd, cleanedUp, crashLog, handlers, started, sigPc, sig>>

\* A signal arrives: signalHandler starts when it is installed for the signal,
\* otherwise the default action ends the process.
Deliver(signal) ==
    /\ Alive
    /\ sigPc = "none"
    /\ sigPc' = IF signal \in handlers THEN "header" ELSE "killed"
    /\ sig' = signal
    /\ UNCHANGED <<config, mutex_, output, locals, history,
                   crashLogFd, cleanedUp, crashLog, handlers, started, mainPc>>

\* signalHandler: logToFile(crashLogFd, "Application crashed with signal:").
HandlerHeader ==
    /\ sigPc = "header"
    /\ HandlerMayRun(mutex_)
    /\ crashLog' = LogToFile(crashLogFd, FdOpen, crashLog, CrashHeader)
    /\ sigPc' = "line"
    /\ UNCHANGED <<config, mutex_, output, locals, history,
                   crashLogFd, cleanedUp, handlers, started, mainPc, sig>>

\* signalHandler: the switch writes the literal of the signal.
HandlerLine ==
    /\ sigPc = "line"
    /\ crashLog' = LogToFile(crashLogFd, FdOpen, crashLog, SignalText(sig))
    /\ sigPc' = "exit"
    /\ UNCHANGED <<config, mutex_, output, locals, history,
                   crashLogFd, cleanedUp, handlers, started, mainPc, sig>>

\* signalHandler: _exit(EXIT_FAILURE) ends the process.
HandlerExit ==
    /\ sigPc = "exit"
    /\ sigPc' = "dead"
    /\ cleanedUp' = HandlerExitCleanup(cleanedUp)
    /\ UNCHANGED <<config, mutex_, output, locals, history,
                   crashLogFd, crashLog, handlers, started, mainPc, sig>>

NextMain ==
    \/ MainConfigure
    \/ SetupCrashLog
    \/ SetupSignalHandlers
    \/ MainStartThreads
    \/ \E t \in Threads : ThreadSetVerbosity(t)
    \/ \E t \in Threads : ThreadLog(t)
    \/ MainJoin
    \/ MainLogJoined
    \/ MainReport
    \/ CrashApp
    \/ MainLogTail
    \/ CleanupCrashLog
    \/ ProcessExit
    \/ \E signal \in Signals : Deliver(signal)
    \/ HandlerHeader
    \/ HandlerLine
    \/ HandlerExit

SpecMain == Init /\ [][NextMain]_vars

\* signalHandler's statements, which the interrupted thread goes on to execute.
HandlerStep == HandlerHeader \/ HandlerLine \/ HandlerExit

\* The process of main.cpp with a handler that, once started, keeps running.
SpecMainFair == SpecMain /\ WF_vars(HandlerStep)

\* ------------------------------------------------------------- the log as read back
RECURSIVE BackupChain(_, _, _)
\* The lines of the backups path.index, path.index+1, ... in index order.
BackupChain(fs, path, index) ==
    IF Exists(fs, BackupName(path, index))
    THEN fs[BackupName(path, index)] \o BackupChain(fs, path, index + 1)
    ELSE <<>>

\* The lines of the active file (none when it does not exist).
ActiveLines(fs, path) == IF Exists(fs, path) THEN fs[path] ELSE <<>>

\* The whole log: the backups in rotation order, then the active file.
LogOutput == BackupChain(files, logFile_, 1) \o ActiveLines(files, logFile_)

\* The message of a line: the last string inserted into it.
MessageOf(line) == line[Len(line)]

RECURSIVE MessagesOf(_)
MessagesOf(lines) ==
    IF lines = <<>> THEN <<>> ELSE <<MessageOf(Head(lines))>> \o MessagesOf(Tail(lines))

\* The messages thread t has passed to log so far.
SubmittedBy(t) == {Msg(t, k) : k \in 1..seq[t]}

RECURSIVE Project(_, _)
\* The subsequence of msgs made of the members of S.
Project(msgs, S) ==
    IF msgs = <<>> THEN <<>>
    ELSE (IF Head(msgs) \in S THEN <<Head(msgs)>> ELSE <<>>) \o Project(Tail(msgs), S)

Front(s) == SubSeq(s, 1, Len(s) - 1)

\* The accepted messages of t whose append has been done: all of them but the
\* one of a call that is still before its append.
Appended(t) == IF pc[t] \in {"rotate", "write"} THEN Front(accepted[t]) ELSE accepted[t]

\* The backup files of path that exist.
Backups(fs, path) == {n \in DOMAIN fs : \E i \in 1..(MaxCalls + 1) : n = BackupName(path, i)}

\* ------------------------------------------------------------- claims

\* C1: as long as no open for append has failed, the lines of each thread
\* appear in the log (backups in rotation order, then the active file) in the
\* order the thread submitted them, whatever the other thread does.
C1_SubmissionOrder ==
    cerr = <<>> =>
        \A t \in Threads : Project(MessagesOf(LogOutput), SubmittedBy(t)) = Appended(t)

\* C1 witness: t2's line sits between two lines of t1, across two rotations.
C1_Witness ==
    /\ AllReturned
    /\ cerr = <<>>
    /\ Len(rotatedOut) = 2
    /\ MessagesOf(LogOutput) = <<"t1.1", "t2.1", "t1.2">>

\* C2: once every log call has returned and no open for append has failed,
\* the log holds exactly one line per accepted event: as many lines as events
\* were accepted, each accepted message exactly once.
C2_DrainComplete ==
    (AllReturned /\ cerr = <<>>) =>
        LET out == MessagesOf(LogOutput) IN
        /\ Len(out) = Len(accepted["t1"]) + Len(accepted["t2"])
        /\ \A t \in Threads : \A i \in 1..Len(accepted[t]) :
               Cardinality({j \in 1..Len(out) : out[j] = accepted[t][i]}) = 1

\* C2 witness: three accepted events, all returned, spread over a backup and
\* the active file.
C2_Witness ==
    /\ AllReturned
    /\ cerr = <<>>
    /\ Len(accepted["t1"]) + Len(accepted["t2"]) = 3
    /\ Len(rotatedOut) = 1
    /\ Len(ActiveLines(files, logFile_)) = 1

\* C3: a log call whose level is below minLogLevel_ returns straight from the
\* filter: it never reaches the rotation check and leaves the files, the
\* console and cerr as they were.
C3_BelowMinNoEffect ==
    [][\A t \in Threads :
          (/\ pc[t] = "lock"
           /\ pc'[t] # "lock"
           /\ LevelValue(call[t].level) < LevelValue(minLogLevel_))
          => (pc'[t] = "idle" /\ UNCHANGED <<files, cout, cerr, rotatedOut>>)]_vars

\* C3 witness: a thread has had an event dropped while the log file exists
\* (there was a file to rotate or to append to).
C3_Witness ==
    \E t \in Threads :
        /\ pc[t] = "idle"
        /\ seq[t] > Len(accepted[t])
        /\ Exists(files, logFile_)

\* C4 as claimed: whenever the active file's size is >= maxLogSize_ (equal
\* included) at the rotation check of an accepted event, a rotation is done.
C4_RotatesAtOrAboveMax ==
    [][\A t \in Threads :
          (/\ pc[t] = "rotate"
           /\ pc'[t] = "write"
           /\ Exists(files, logFile_)
           /\ FileSize(files[logFile_]) >= maxLogSize_)
          => rotated'[t] # "no"]_vars

\* C4 as amended: the rotation check of an accepted event calls rename exactly
\* when the active file exists and is strictly larger than maxLogSize_ (a
\* file of exactly maxLogSize_ bytes is left alone), before the append; when
\* the rename succeeds the active file is gone by the time of the append.
C4_RotatesAboveMax ==
    [][\A t \in Threads :
          (pc[t] = "rotate" /\ pc'[t] = "write")
          => /\ rotated'[t] # "no"
                   <=> (Exists(files, logFile_) /\ FileSize(files[logFile_]) > maxLogSize_)
             /\ rotated'[t] = "renamed" => ~Exists(files', logFile_)
             /\ rotated'[t] # "renamed" => files' = files]_vars

\* C4 witness: a call stands between a successful rotation of a file larger
\* than the maximum and its append.
C4_Witness ==
    \E t \in Threads :
        /\ pc[t] = "write"
        /\ rotated[t] = "renamed"
        /\ FileSize(rotatedOut[Len(rotatedOut)]) > maxLogSize_
        /\ ~Exists(files, logFile_)

C6_AtMostMaxBackups == Cardinality(Backups(files, logFile_)) <= 1

\* C6 as amended: there is no backup limit and no backup is ever discarded:
\* after k successful rotations exactly k backup files exist, path.1 .. path.k.
C6_OneBackupPerRotation ==
    Backups(files, logFile_) = {BackupName(logFile_, i) : i \in 1..Len(rotatedOut)}

\* C6 witness: two rotations, two backups.
C6_Witness ==
    /\ Len(rotatedOut) = 2
    /\ Cardinality(Backups(files, logFile_)) = 2

\* C7 as claimed: once a rotation has happened, path.1 holds the content of
\* the most recently rotated-out file.
C7_FirstBackupIsNewest ==
    Len(rotatedOut) >= 1 =>
        /\ Exists(files, BackupName(logFile_, 1))
        /\ files[BackupName(logFile_, 1)] = rotatedOut[Len(rotatedOut)]

\* C7 as amended: path.1 holds the content of the first (oldest) rotated-out
\* file; the most recently rotated-out content is in the backup of highest
\* index, path.k after k rotations.
C7_LastBackupIsNewest ==
    Len(rotatedOut) >= 1 =>
        /\ Exists(files, BackupName(logFile_, 1))
        /\ files[BackupName(logFile_, 1)] = rotatedOut[1]
        /\ Exists(files, BackupName(logFile_, Len(rotatedOut)))
        /\ files[BackupName(logFile_, Len(rotatedOut))] = rotatedOut[Len(rotatedOut)]
        /\ ~Exists(files, BackupName(logFile_, Len(rotatedOut) + 1))

\* C7 witness: two rotations of different content.
C7_Witness ==
    /\ Len(rotatedOut) = 2
    /\ rotatedOut[1] # rotatedOut[2]
    /\ files[BackupName(logFile_, 2)] = rotatedOut[2]

\* C8: when a log call whose rotation did not fail is about to return, the
\* active file is larger than maxLogSize_ by at most the line that call
\* appended: without its last line it is within the maximum.
C8_OvershootAtMostOneLine ==
    \A t \in Threads :
        (pc[t] = "echo" /\ rotated[t] # "failed")
        => FileSize(ActiveLines(files, logFile_))
              <= maxLogSize_ + (IF opened[t] = "ok" THEN LineSize(logMessage[t]) ELSE 0)

\* C8 witness: the append of the returning call took a file of at least two
\* lines over the maximum.
C8_Witness ==
    \E t \in Threads :
        /\ pc[t] = "echo"
        /\ rotated[t] = "no"
        /\ opened[t] = "ok"
        /\ Len(files[logFile_]) >= 2
        /\ FileSize(files[logFile_]) > maxLogSize_

\* The order of the levels in the specification's data model:
\* TRACE < DEBUG < INFO < WARNING < ERROR < CRITICAL.
SpecLevelRank(level) ==
    CASE level = "TRACE"    -> 0
      [] level = "DEBUG"    -> 1
      [] level = "INFO"     -> 2
      [] level = "WARNING"  -> 3
      [] level = "ERROR"    -> 4
      [] level = "CRITICAL" -> 5

\* C9 as claimed: a log call whose level is below minLogLevel_ in the order
\* TRACE < DEBUG < INFO < WARNING < ERROR < CRITICAL (a DEBUG event under a
\* minimum of INFO, WARNING or ERROR) writes nothing to the files or the
\* console.
C9_DebugBelowInfo ==
    [][\A t \in Threads :
          (/\ pc[t] \in {"rotate", "write", "echo"}
           /\ SpecLevelRank(call[t].level) < SpecLevelRank(minLogLevel_))
          => UNCHANGED <<files, cout>>]_vars

\* C10: a failed open for append puts exactly one line on cerr (nothing else
\* ever writes to cerr) and leaves the files alone; the call goes on to the
\* console echo, which shows the event's line when logToConsole_ is set; and
\* the call returns with the mutex released, so later calls are served.
C10_OpenFailureReportedOnce ==
    /\ [][\A t \in Threads :
            (pc[t] = "write" /\ opened'[t] = "failed")
            => /\ cerr' = Append(cerr, OpenError(logFile_))
               /\ files' = files
               /\ pc'[t] = "echo"
               /\ logMessage'[t] = Render(call[t], verbose_)]_vars
    /\ [][cerr' # cerr => \E t \in Threads : pc[t] = "write" /\ opened'[t] = "failed"]_vars
    /\ [][\A t \in Threads :
            (pc[t] = "echo" /\ opened[t] = "failed")
            => /\ pc'[t] \in {"echo", "idle"}
               /\ pc'[t] = "idle"
                    => /\ cout' = (IF logToConsole_ THEN Append(cout, logMessage[t]) ELSE cout)
                       /\ mutex_' = NoThread
                       /\ cerr' = cerr]_vars

\* C10 witness: the console shows an event whose open failed followed by a
\* later event that reached the file.
C10_Witness ==
    /\ Len(cerr) = 1
    /\ Len(cout) = 2
    /\ Len(LogOutput) = 1
    /\ MessageOf(cout[2]) = MessageOf(LogOutput[1])

C12_RenameFailureReported ==
    [][\A t \in Threads :
         (pc[t] = "echo" /\ rotated[t] = "failed" /\ pc'[t] = "idle")
         => \/ cerr' # <<>>
            \/ Len(cout') > Len(cout) + (IF logToConsole_ THEN 1 ELSE 0)
            \/ \E i \in 1..Len(cout') : MessageOf(cout'[i]) \notin {Msg(u, k) : u \in Threads, k \in 1..MaxCalls}]_vars

\* C13: no thread waits at log's lock_guard while another thread's call is
\* at its rotation, its file append or its console echo.
C13_NoCallerWaitsDuringIO ==
    \A t, u \in Threads :
        ~(t # u /\ pc[t] = "lock" /\ mutex_ = u /\ pc[u] \in {"rotate", "write", "echo"})

\* C14 as stated: when signalHandler has run for SIGSEGV with the crash
\* descriptor open, crash.log holds the line "SIGSEGV (Segmentation Fault)"
\* and nothing else.
C14_OnlyTheSignalLine ==
    (sigPc = "dead" /\ sig = "SIGSEGV" /\ FdOpen)
    => crashLog = <<"SIGSEGV (Segmentation Fault)">>

\* C14: when signalHandler has run for a handled signal with the crash
\* descriptor open, it has appended exactly two lines to crash.log: the header
\* "Application crashed with signal:" and then the signal's own literal; with
\* the descriptor -1 or closed it has appended nothing; and nothing but
\* signalHandler writes to crash.log.
C14_HeaderThenSignalLine ==
    /\ sigPc \in {"none", "header", "killed"} => crashLog = <<>>
    /\ sigPc = "line" => crashLog = (IF FdOpen THEN <<"Application crashed with signal:">> ELSE <<>>)
    /\ sigPc \in {"exit", "dead"} =>
         /\ sig \in HandledSignals
         /\ ~FdOpen => crashLog = <<>>
         /\ FdOpen =>
              /\ Len(crashLog) = 2
              /\ crashLog[1] = "Application crashed with signal:"
              /\ sig = "SIGSEGV" => crashLog[2] = "SIGSEGV (Segmentation Fault)"
              /\ sig = "SIGABRT" => crashLog[2] = "SIGABRT (Abort)"
              /\ sig = "SIGFPE" => crashLog[2] = "SIGFPE (Floating Point Exception)"
              /\ sig = "SIGILL" => crashLog[2] = "SIGILL (Illegal Instruction)"
              /\ sig = "SIGINT" => crashLog[2] = "SIGINT (Interrupt)"
              /\ sig = "SIGTERM" => crashLog[2] = "SIGTERM (Termination)"

\* C14 witness: signalHandler has ended the process for SIGSEGV, raised by
\* crashApp, and crash.log holds its two lines.
C14_Witness ==
    /\ sigPc = "dead"
    /\ sig = "SIGSEGV"
    /\ mainPc = "crash"
    /\ FdOpen
    /\ crashLog = <<"Application crashed with signal:", "SIGSEGV (Segmentation Fault)">>

\* C15: once signalHandler has started, for any signal and whether or not
\* the crash descriptor is open, it is never kept waiting, goes through its
\* two writes once each, in order, and ends the process; cleanupCrashLog
\* does not run from then on; and after the process has ended nothing changes
\* any more: no file, no console line, no descriptor.  A signal the handler is
\* not installed for has no case in the switch but the default one.
C15_HandlerAlwaysTerminates ==
    /\ [](sigPc \in {"header", "line", "exit"} => ENABLED HandlerStep)
    /\ [][/\ sigPc = "header" => sigPc' \in {"header", "line"}
          /\ sigPc = "line" => sigPc' \in {"line", "exit"}
          /\ sigPc = "exit" => sigPc' \in {"exit", "dead"}
          /\ sigPc # "none" => (cleanedUp' = cleanedUp /\ crashLogFd' = crashLogFd /\ sig' = sig)
          /\ sigPc \in {"dead", "killed"} => UNCHANGED vars]_vars
    /\ [](SignalText("SIGHUP") = "Unknown signal received")
    /\ (sigPc = "header") ~> (sigPc = "dead")

\* C15 witness: the crash log could not be opened, SIGTERM arrived while a
\* thread was inside log before its append, and the handler has ended the
\* process: the append never happens.
C15_Witness ==
    /\ sigPc = "dead"
    /\ sig = "SIGTERM"
    /\ crashLogFd = NoFd
    /\ ~cleanedUp
    /\ mainPc = "run"
    /\ \E t \in Threads : pc[t] = "write"

\* C16: crashLogFd is assigned by setupCrashLog only, once, from its initial
\* -1, while signalHandler is installed for no signal and none is being
\* handled; no handler is installed before that; the descriptor is closed by
\* cleanupCrashLog only, on main's return, never while a handler runs; so
\* whenever a handler runs crashLogFd holds what setupCrashLog put there.
C16_DescriptorSetOnceBeforeHandlers ==
    /\ [][crashLogFd' # crashLogFd
            => /\ mainPc = "crashlog" /\ mainPc' # "crashlog"
               /\ crashLogFd = NoFd
               /\ handlers = {}
               /\ sigPc = "none"]_vars
    /\ [](handlers # {} => mainPc \notin {"start", "crashlog"})
    /\ [](mainPc \in {"start", "crashlog"} => crashLogFd = NoFd /\ ~cleanedUp)
    /\ [][cleanedUp' # cleanedUp
            => /\ mainPc = "return" /\ mainPc' = "closed"
               /\ sigPc = "none" /\ sigPc' = "none"]_vars
    /\ [][(sigPc \in {"header", "line", "exit"})
            => /\ crashLogFd' = crashLogFd
               /\ cleanedUp' = cleanedUp]_vars
    /\ [](sigPc \in {"header", "line", "exit"} => crashLogFd \in {CrashFd, NoFd})

\* C16 witness: the process has ended by main's return, with all handlers
\* installed, the descriptor opened at start-up and closed by cleanupCrashLog,
\* and no signal handled.
C16_Witness ==
    /\ mainPc = "exited"
    /\ sigPc = "none"
    /\ handlers = HandledSignals
    /\ crashLogFd = CrashFd
    /\ cleanedUp
    /\ crashLog = <<>>

\* C17: signalHandler can take its next step in every state, whoever holds
\* mutex_ and wherever the threads are inside log; its steps change neither
\* mutex_ nor the logger's configuration, files or console, nor any thread's
\* call; and a handler that starts while a thread holds mutex_ ends the process.
C17_HandlerIndependentOfLogger ==
    /\ [](\A t \in Threads :
            (sigPc \in {"header", "line", "exit"} /\ mutex_ = t) => ENABLED HandlerStep)
    /\ [][sigPc' # sigPc /\ sigPc # "none"
            => UNCHANGED <<config, mutex_, output, locals, history>>]_vars
    /\ (sigPc = "header" /\ mutex_ # NoThread) ~> (sigPc = "dead")

\* C17 witness: the handler has written its two lines and ended the process
\* while a thread is inside log, holding mutex_, before its append.
C17_Witness ==
    /\ sigPc = "dead"
    /\ Len(crashLog) = 2
    /\ \E t \in Threads : mutex_ = t /\ pc[t] = "write"
    /\ \E t \in Threads : pc[t] = "lock"

\* C18: from the level filter of a log call to its return no setter changes
\* the configuration, so the call's rotation check, append and echo use the
\* values its filter saw: the event still passes the filter, and the line
\* echoed is the line rendered with the current verbosity; a setter runs only
\* while no call is between filter and return.
C18_ConfigStableDuringCall ==
    /\ [][(mutex_ # NoThread) => config' = config]_vars
    /\ [][config' # config => (mutex_ = NoThread /\ mutex_' = NoThread /\ UNCHANGED output)]_vars
    /\ [](\A t \in Threads :
            pc[t] \in {"rotate", "write", "echo"}
            => /\ mutex_ = t
               /\ ~BelowMinLevel(call[t].level, minLogLevel_)
               /\ pc[t] = "echo" => logMessage[t] = Render(call[t], verbose_))

\* C18 witness: verbosity was switched on between two events; the first
\* line has no location, the second, whose call is still at its echo while
\* the other thread waits, has one.
C18_Witness ==
    /\ verbose_
    /\ Len(LogOutput) = 2
    /\ Len(LogOutput[1]) = 3
    /\ Len(LogOutput[2]) > 3
    /\ \E t, u \in Threads : pc[t] = "echo" /\ pc[u] = "lock"

\* The members of a sequence.
Range(s) == {s[i] : i \in 1..Len(s)}

\* C19: at most one thread is between log's level filter and its return,
\* and it is the holder of mutex_; while a call is there, no step of another
\* thread changes a file or the console, so nothing happens between its
\* rotation check and its append; every line of the log is one whole
\* rendering (timestamp, level tag, optional location, message) and no message
\* has two lines; and the messages that are both on the console and in the log
\* are in the same order in both.
C19_OneCallInSection ==
    /\ [](\A t, u \in Threads :
            (pc[t] \in {"rotate", "write", "echo"} /\ pc[u] \in {"rotate", "write", "echo"})
            => (t = u /\ mutex_ = t))
    /\ [][\A t \in Threads :
            (pc[t] \in {"rotate", "write", "echo"} /\ pc'[t] = pc[t])
            => UNCHANGED <<files, cout, config>>]_vars
    /\ [](\A i \in 1..Len(LogOutput) :
            /\ Len(LogOutput[i]) \in {3, 6, 8}
            /\ LogOutput[i][1] = Timestamp
            /\ LogOutput[i][2] \in {LevelTag(l) : l \in LogLevels}
            /\ \A j \in 1..Len(LogOutput) : MessageOf(LogOutput[j]) = MessageOf(LogOutput[i]) => j = i)
    /\ [](Project(MessagesOf(cout), Range(MessagesOf(LogOutput)))
            = Project(MessagesOf(LogOutput), Range(MessagesOf(cout))))

\* C19 witness: both threads have logged, three events in all, and console
\* and log show them in the same order, t2's event between t1's two.
C19_Witness ==
    /\ AllReturned
    /\ Len(cout) = 3
    /\ MessagesOf(cout) = MessagesOf(LogOutput)
    /\ MessagesOf(cout) = <<Msg("t1", 1), Msg("t2", 1), Msg("t1", 2)>>

\* C20: no step removes or changes a file other than the log file itself, so
\* a backup, once created, stays with its content; a successful rotation
\* creates the backup of the lowest index that does not exist, all lower
\* indexes existing, with the log file's content; and after k successful
\* rotations the i-th backup holds the content of the i-th rotation, for
\* every i from 1 to k, so a lower index holds older content.
C20_BackupsNeverTouched ==
    /\ [][\A n \in DOMAIN files :
            n # logFile_ => (n \in DOMAIN files' /\ files'[n] = files[n])]_vars
    /\ [][\A t \in Threads :
            (pc[t] = "rotate" /\ rotated'[t] = "renamed")
            => LET k == Cardinality(Backups(files, logFile_)) + 1
               IN  /\ \A i \in 1..(k - 1) : Exists(files, BackupName(logFile_, i))
                   /\ ~Exists(files, BackupName(logFile_, k))
                   /\ DOMAIN files' = (DOMAIN files \ {logFile_}) \cup {BackupName(logFile_, k)}
                   /\ files'[BackupName(logFile_, k)] = files[logFile_]]_vars
    /\ [](\A i \in 1..Len(rotatedOut) :
            /\ Exists(files, BackupName(logFile_, i))
            /\ files[BackupName(logFile_, i)] = rotatedOut[i])
    /\ [](Cardinality(Backups(files, logFile_)) = Len(rotatedOut))

\* C20 witness: after the second rotation a third file is being written;
\* the two backups hold the first and the second content.
C20_Witness ==
    /\ Len(rotatedOut) = 2
    /\ Exists(files, logFile_)
    /\ files[BackupName(logFile_, 1)] = rotatedOut[1]
    /\ files[BackupName(logFile_, 2)] = rotatedOut[2]
    /\ MessageOf(rotatedOut[1][1]) # MessageOf(rotatedOut[2][1])
    /\ Backups(files, logFile_) = {BackupName(logFile_, 1), BackupName(logFile_, 2)}

====
